---- MODULE Spec2Model ----
(***************************************************************************)
(* Job execution of the f2v2f backend: the encode/decode worker of        *)
(* backend/app.py, the ctypes bridge of backend/f2v2f.py, the files table, *)
(* the uploads/outputs folders and the status, delete and cleanup         *)
(* handlers that run concurrently with the workers.                        *)
(***************************************************************************)
EXTENDS Integers, Sequences, FiniteSets, TLC

\* ---------------------------------------------------------------- bounds
MaxJobs == 2
MaxSize == 1
MaxBytes == 2
MaxTicks == 2
MaxLen == 3
MaxByte == 1
MaxChunk == 2
MaxRows == 3

\* ------------------------------------------------------------- constants
None == "None"
NULL == "NULL"
BadUtf8 == "BadUtf8"
\* hasattr(job, 'total_size') is false: the attribute was never attached
NoAttr == -1
\* result_url is None
NoUrl == <<>>
\* no exception is being propagated
NoExc == [type |-> "None", msg |-> ""]

JobIds == 1..MaxJobs
Sizes == 0..MaxSize

\* class JobStatus
PENDING == "pending"
RUNNING == "running"
COMPLETED == "completed"
FAILED == "failed"
JobStatus == {PENDING, RUNNING, COMPLETED, FAILED}

\* class ErrorCode
SUCCESS == 0
INVALID_INPUT == 1
IO_ERROR == 2
ENCODING_ERROR == 3
DECODING_ERROR == 4
CONFIG_ERROR == 5
OPERATION_IN_PROGRESS == 6
INVALID_HANDLE == 7
UNKNOWN == 255
ErrorCode == {SUCCESS, INVALID_INPUT, IO_ERROR, ENCODING_ERROR, DECODING_ERROR,
              CONFIG_ERROR, OPERATION_IN_PROGRESS, INVALID_HANDLE, UNKNOWN}

\* what f2v2f_get_last_error can hand back: a null pointer, or a C string that
\* is a detailed message, is empty, or is not valid UTF-8
ErrPtrs == {NULL, "detail", "", BadUtf8}

\* cleanup_old_files: expiration_time, in seconds
expiration_time == 24 * 60 * 60
\* the clock advances in steps of one day
TickSeconds == 24 * 60 * 60

VARIABLES
    jobs,       \* the jobs dict: job id -> Job; its DOMAIN is the set of keys
    closure,    \* the request's locals each worker closes over
    pc,         \* position of each job's worker thread
    exc,        \* the exception a worker is propagating / has caught
    handle,     \* Encoder._handle / Decoder._handle of the worker's codec object
    engine,     \* the engine's side of each worker's handle: creates, frees, uses after free
    reported,   \* the last bytes_processed the engine passed to the progress callback
    uploads,    \* UPLOAD_FOLDER: file (by the uuid in its name) -> [size]
    outputs,    \* OUTPUT_FOLDER: file (by the uuid in its name) -> [size, mtime]
    files,      \* the files table: record id -> row
    now,        \* wall clock, seconds
    cycle       \* test_full_cycle: its position, locals and the files it uses

jobvars == <<jobs, closure, pc, exc, handle, engine, reported, uploads, outputs, files, now>>
vars == <<jobvars, cycle>>

\* ----------------------------------------------------------- pure helpers

\* "/api/download/{output_name}"; output_name starts with a fresh uuid, which
\* is the job's index here
download(j) == <<"/api/download", j>>

\* a callback that falls back to 0 instead of 50
progress_value_from_zero(total_bytes, total_size) ==
    IF total_size # NoAttr /\ total_size > 0
    THEN (total_bytes * 100) \div total_size
    ELSE 0

\* progress_callback's arithmetic: int((total_bytes / job.total_size) * 100)
\* when the attribute is there and positive, else 50
progress_value(total_bytes, total_size) ==
    IF total_size # NoAttr /\ total_size > 0
    THEN (total_bytes * 100) \div total_size
    ELSE 50

\* "error_msg or default"
msg_or(error_msg, default) ==
    IF error_msg = None \/ error_msg = "" THEN default ELSE error_msg

\* the message _check_error decodes from the pointer
decode_msg(ptr) ==
    IF ptr = NULL \/ ptr = BadUtf8 THEN None ELSE ptr

\* _check_error: None for SUCCESS, else the exception raised
_check_error(error_code, ptr) ==
    LET error_msg == decode_msg(ptr) IN
    CASE error_code = SUCCESS -> NoExc
      [] error_code = INVALID_INPUT ->
            [type |-> "InvalidInputError", msg |-> msg_or(error_msg, "Invalid input")]
      [] error_code = IO_ERROR ->
            [type |-> "F2V2FError", msg |-> msg_or(error_msg, "I/O error")]
      [] error_code = ENCODING_ERROR ->
            [type |-> "EncodingError", msg |-> msg_or(error_msg, "Encoding failed")]
      [] error_code = DECODING_ERROR ->
            [type |-> "DecodingError", msg |-> msg_or(error_msg, "Decoding failed")]
      [] error_code = CONFIG_ERROR ->
            [type |-> "ConfigError", msg |-> msg_or(error_msg, "Configuration error")]
      [] error_code = INVALID_HANDLE ->
            [type |-> "F2V2FError", msg |-> msg_or(error_msg, "Invalid handle")]
      [] error_code = UNKNOWN ->
            [type |-> "F2V2FError", msg |-> msg_or(error_msg, "Unknown error")]
      [] OTHER ->
            [type |-> "F2V2FError", msg |-> msg_or(error_msg, "Unknown error code")]

\* A file name is the sequence of its parts: words, and the separators "." and
\* "/" as parts of their own. The empty name stands for None and for "".
NoName == <<>>

\* the indexes of a name at which the part `sep` stands
places(name, sep) == {i \in 1..Len(name) : name[i] = sep}

\* the greatest index in a non-empty set of indexes
last(indexes) == CHOOSE i \in indexes : \A k \in indexes : k <= i

\* Path(p).name: what follows the last "/"
Path_name(p) ==
    IF places(p, "/") = {} THEN p
    ELSE SubSeq(p, last(places(p, "/")) + 1, Len(p))

\* Path(p).suffix: from the last "." of the name on, when that "." is neither
\* the first nor the last character of the name; else empty
Path_suffix(p) ==
    LET name == Path_name(p)
        dots == places(name, ".")
    IN  IF dots # {} /\ 1 < last(dots) /\ last(dots) < Len(name)
        THEN SubSeq(name, last(dots), Len(name))
        ELSE <<>>

\* Path(p).stem: the name without its suffix
Path_stem(p) ==
    LET name == Path_name(p)
    IN  SubSeq(name, 1, Len(name) - Len(Path_suffix(p)))

\* name.strip("._") of secure_filename: leading and trailing "." and "_" go
RECURSIVE strip(_)
strip(name) ==
    IF name = <<>> THEN <<>>
    ELSE IF Head(name) \in {".", "_"} THEN strip(Tail(name))
    ELSE IF name[Len(name)] \in {".", "_"} THEN strip(SubSeq(name, 1, Len(name) - 1))
    ELSE name

\* werkzeug's secure_filename on a name of ASCII words: each path separator
\* becomes "_", then the strip
secure_filename(name) ==
    strip([i \in 1..Len(name) |-> IF name[i] = "/" THEN "_" ELSE name[i]])

\* encode: output_name = f"{uuid}_{Path(filename).stem}.mp4", after the uuid
encode_output_name(filename) == Path_stem(filename) \o <<".", "mp4">>

\* an output name made of the stem alone
decode_output_name_without_suffix(original_filename) ==
    IF original_filename # NoName
    THEN Path_stem(original_filename)
    ELSE <<"decoded", ".", "bin">>

\* decode: output_name = f"{uuid}_{stem}{suffix}" of the original filename when
\* one was found, else f"{uuid}_decoded.bin"; after the uuid
decode_output_name(original_filename) ==
    IF original_filename # NoName
    THEN Path_stem(original_filename) \o Path_suffix(original_filename)
    ELSE <<"decoded", ".", "bin">>

\* Job(job_id, operation, input_file, output_file, status=PENDING)
Job(operation) ==
    [operation |-> operation,
     status |-> PENDING,
     progress |-> 0,
     error_message |-> None,
     result_url |-> NoUrl,
     total_size |-> NoAttr]

\* ------------------------------------------------------------------ state

\* test_full_cycle has not been started
NoCycle == [pc |-> "idle"]

\* the application after import: no job, empty folders, empty files table
AppInit ==
    /\ jobs = <<>>
    /\ closure = <<>>
    /\ pc = [j \in JobIds |-> "idle"]
    /\ exc = [j \in JobIds |-> NoExc]
    /\ handle = [j \in JobIds |-> None]
    /\ engine = [j \in JobIds |-> [creates |-> 0, frees |-> 0, used_freed |-> FALSE]]
    /\ reported = [j \in JobIds |-> 0]
    /\ uploads = <<>>
    /\ outputs = <<>>
    /\ files = <<>>
    /\ now = 0

Init == AppInit /\ cycle = NoCycle

\* the uuid4 a request draws: ids are issued in order
fresh(j) == j \notin DOMAIN jobs /\ \A k \in JobIds : k < j => k \in DOMAIN jobs

\* remove one key of a dict / one file of a folder / one row of the table
drop(f, k) == [x \in DOMAIN f \ {k} |-> f[x]]

\* raise e inside the worker's try block: control goes to "except Exception as e"
raise(j, e) ==
    /\ pc' = [pc EXCEPT ![j] = "except_status"]
    /\ exc' = [exc EXCEPT ![j] = e]

goto(j, label) == pc' = [pc EXCEPT ![j] = label]

\* -------------------------------------------------------- request handlers

\* POST /api/encode up to thread.start(): save the upload, create the job
encode_file(j, size, filename) ==
    /\ fresh(j)
    /\ uploads' = uploads @@ (j :> [size |-> size])
    /\ jobs' = jobs @@ (j :> Job("encode"))
    /\ closure' = closure @@ (j :> [original_filename |-> filename,
                                    output_name |-> encode_output_name(secure_filename(filename))])
    /\ goto(j, "running")
    /\ UNCHANGED <<exc, handle, engine, reported, outputs, files, now, cycle>>

\* the rows SELECT original_file FROM files WHERE video_url = ? finds
rows_for(url) == {r \in DOMAIN files : files[r].video_url = url}

\* the query without its ORDER BY: LIMIT 1 of the matching rows in any order
any_rows(url) == rows_for(url)

\* ... ORDER BY created_at DESC LIMIT 1: the row the query returns is one of
\* the matching rows that no matching row is newer than
latest_rows(url) ==
    {r \in rows_for(url) : \A q \in rows_for(url) : files[q].created_at <= files[r].created_at}

\* the values the lookup can leave in original_filename: None when no row
\* matches, else row['original_file'], which is None when it is empty
find_original_filename(url) ==
    IF rows_for(url) = {} THEN {NoName}
    ELSE {files[r].original_file : r \in latest_rows(url)}

\* POST /api/decode up to thread.start(); video names the uploaded file: the
\* output of job `video`, or 0 for a file this service never produced
decode_video(j, size, video) ==
    /\ fresh(j)
    /\ uploads' = uploads @@ (j :> [size |-> size])
    /\ jobs' = jobs @@ (j :> Job("decode"))
    /\ \E original_filename \in find_original_filename(download(video)) :
           closure' = closure @@ (j :> [original_filename |-> original_filename,
                                       output_name |-> decode_output_name(original_filename)])
    /\ goto(j, "running")
    /\ UNCHANGED <<exc, handle, engine, reported, outputs, files, now, cycle>>

\* ------------------------------------------------------------ the worker
\* encode_task and decode_task run the same steps; where they differ the
\* job's operation decides.

\* job.status = JobStatus.RUNNING
task_running(j) ==
    /\ pc[j] = "running"
    /\ jobs' = [jobs EXCEPT ![j].status = RUNNING]
    /\ goto(j, "stat")
    /\ UNCHANGED <<closure, exc, handle, engine, reported, uploads, outputs, files, now, cycle>>

\* job.total_size = input_path.stat().st_size; stat raises FileNotFoundError
\* when the file is not there
task_stat(j) ==
    /\ pc[j] = "stat"
    /\ IF j \in DOMAIN uploads
       THEN /\ jobs' = [jobs EXCEPT ![j].total_size = uploads[j].size]
            /\ goto(j, "create")
            /\ UNCHANGED exc
       ELSE /\ raise(j, [type |-> "FileNotFoundError", msg |-> "No such file: input_path"])
            /\ UNCHANGED jobs
    /\ UNCHANGED <<closure, handle, engine, reported, uploads, outputs, files, now, cycle>>

\* Encoder(...) / Decoder(), then encode()/decode() up to the engine call:
\* _create_handle asks the engine for a handle; a null handle raises ConfigError
_create_handle(j) ==
    /\ pc[j] = "create"
    /\ handle[j] = None
    /\ \/ /\ handle' = [handle EXCEPT ![j] = "handle"]
          /\ engine' = [engine EXCEPT ![j].creates = @ + 1]
          /\ goto(j, "encode")
          /\ UNCHANGED exc
       \/ /\ raise(j, [type |-> "ConfigError",
                       msg |-> IF jobs[j].operation = "encode"
                               THEN "Failed to create encoder"
                               ELSE "Failed to create decoder"])
          /\ UNCHANGED <<handle, engine>>
    /\ UNCHANGED <<jobs, closure, reported, uploads, outputs, files, now, cycle>>

\* callback_wrapper -> progress_callback: the engine reports total_bytes, never
\* less than it reported before
progress_callback(j, total_bytes) ==
    /\ pc[j] = "encode"
    /\ total_bytes >= reported[j]
    /\ reported' = [reported EXCEPT ![j] = total_bytes]
    /\ jobs' = [jobs EXCEPT ![j].progress = progress_value(total_bytes, jobs[j].total_size)]
    /\ UNCHANGED <<closure, pc, exc, handle, engine, uploads, outputs, files, now, cycle>>

\* the file the engine leaves at output_path: none, or one of `size` bytes
written(j, wrote, size) ==
    IF ~wrote THEN outputs
    ELSE [x \in DOMAIN outputs \cup {j} |->
             IF x = j THEN [size |-> size, mtime |-> now] ELSE outputs[x]]

\* encode() / decode() without the call of _check_error
engine_return_unchecked(j, error_code, ptr, wrote, size) ==
    /\ pc[j] = "encode"
    /\ engine' = [engine EXCEPT ![j].used_freed = @ \/ engine[j].frees > 0]
    /\ outputs' = written(j, wrote, size)
    /\ goto(j, "verify")
    /\ reported' = [reported EXCEPT ![j] = 0]
    /\ UNCHANGED <<jobs, closure, exc, handle, uploads, files, now, cycle>>

\* f2v2f_encode_file / f2v2f_decode_file returns error_code, then
\* _check_error(error_code)
engine_return(j, error_code, ptr, wrote, size) ==
    /\ pc[j] = "encode"
    /\ engine' = [engine EXCEPT ![j].used_freed = @ \/ engine[j].frees > 0]
    /\ outputs' = written(j, wrote, size)
    /\ IF _check_error(error_code, ptr) = NoExc
       THEN goto(j, "verify") /\ UNCHANGED exc
       ELSE raise(j, _check_error(error_code, ptr))
    /\ reported' = [reported EXCEPT ![j] = 0]
    /\ UNCHANGED <<jobs, closure, handle, uploads, files, now, cycle>>

\* if not output_path.exists(): raise RuntimeError(...)
task_verify(j) ==
    /\ pc[j] = "verify"
    /\ IF j \in DOMAIN outputs
       THEN goto(j, "completed") /\ UNCHANGED exc
       ELSE raise(j, [type |-> "RuntimeError", msg |-> "did not create output file"])
    /\ UNCHANGED <<jobs, closure, handle, engine, reported, uploads, outputs, files, now, cycle>>

\* job.status = JobStatus.COMPLETED
task_completed(j) ==
    /\ pc[j] = "completed"
    /\ jobs' = [jobs EXCEPT ![j].status = COMPLETED]
    /\ goto(j, "progress100")
    /\ UNCHANGED <<closure, exc, handle, engine, reported, uploads, outputs, files, now, cycle>>

\* a worker whose `job` is the job of the latest request
task_progress100_of_latest(j) ==
    /\ pc[j] = "progress100"
    /\ jobs' = [jobs EXCEPT ![Cardinality(DOMAIN jobs)].progress = 100]
    /\ goto(j, "result_url")
    /\ UNCHANGED <<closure, exc, handle, engine, reported, uploads, outputs, files, now, cycle>>

\* job.progress = 100
task_progress100(j) ==
    /\ pc[j] = "progress100"
    /\ jobs' = [jobs EXCEPT ![j].progress = 100]
    /\ goto(j, "result_url")
    /\ UNCHANGED <<closure, exc, handle, engine, reported, uploads, outputs, files, now, cycle>>

\* job.result_url = f"/api/download/{output_name}"
task_result_url(j) ==
    /\ pc[j] = "result_url"
    /\ jobs' = [jobs EXCEPT ![j].result_url = download(j)]
    /\ goto(j, "registry")
    /\ UNCHANGED <<closure, exc, handle, engine, reported, uploads, outputs, files, now, cycle>>

\* calculate_checksum reads the file's bytes; the digest of a file is a
\* function of its content, which is its size here
calculate_checksum(file) == <<"sha256", file.size>>

\* a worker that computes the checksum for the rows of both operations
row_with_checksum(j, file) ==
    [name |-> IF closure[j].original_filename # NoName
              THEN closure[j].original_filename ELSE closure[j].output_name,
     type |-> IF jobs[j].operation = "encode" THEN "encoded" ELSE "original",
     size |-> file.size,
     created_at |-> now,
     video_url |-> download(j),
     original_file |-> closure[j].original_filename,
     checksum |-> calculate_checksum(file)]

\* the row the worker inserts for the output file it finds
row(j, file) ==
    IF jobs[j].operation = "encode"
    THEN [name |-> closure[j].original_filename,
          type |-> "encoded",
          size |-> file.size,
          created_at |-> now,
          video_url |-> download(j),
          original_file |-> closure[j].original_filename,
          checksum |-> <<>>]
    ELSE [name |-> IF closure[j].original_filename # NoName
                   THEN closure[j].original_filename ELSE closure[j].output_name,
          type |-> "original",
          size |-> file.size,
          created_at |-> now,
          video_url |-> download(j),
          original_file |-> closure[j].original_filename,
          checksum |-> calculate_checksum(file)]

\* the inner try block: output_path.stat(), (decode) calculate_checksum,
\* INSERT INTO files, commit. A missing output file or a database error raises
\* inside it, and its "except Exception" logs and swallows that. The file's
\* size does not change after the engine returned, so the block's outcome is
\* that of one step: the row is inserted, or nothing is.
task_registry(j) ==
    /\ pc[j] = "registry"
    /\ \/ /\ j \in DOMAIN outputs
          /\ files' = files @@ (j :> row(j, outputs[j]))
       \/ UNCHANGED files
    /\ goto(j, "log")
    /\ UNCHANGED <<jobs, closure, exc, handle, engine, reported, uploads, outputs, now, cycle>>

\* logger.info(f"... ({output_path.stat().st_size} bytes)"): outside the inner
\* try, inside the outer one
task_log(j) ==
    /\ pc[j] = "log"
    /\ IF j \in DOMAIN outputs
       THEN goto(j, "finally") /\ UNCHANGED exc
       ELSE raise(j, [type |-> "FileNotFoundError", msg |-> "No such file: output_path"])
    /\ UNCHANGED <<jobs, closure, handle, engine, reported, uploads, outputs, files, now, cycle>>

\* the except block without its status assignment
task_except_keeps_status(j) ==
    /\ pc[j] = "except_status"
    /\ goto(j, "except_message")
    /\ UNCHANGED <<jobs, closure, exc, handle, engine, reported, uploads, outputs, files, now, cycle>>

\* except Exception as e: job.status = JobStatus.FAILED
task_except_status(j) ==
    /\ pc[j] = "except_status"
    /\ jobs' = [jobs EXCEPT ![j].status = FAILED]
    /\ goto(j, "except_message")
    /\ UNCHANGED <<closure, exc, handle, engine, reported, uploads, outputs, files, now, cycle>>

\* job.error_message = str(e)
task_except_message(j) ==
    /\ pc[j] = "except_message"
    /\ jobs' = [jobs EXCEPT ![j].error_message = exc[j].msg]
    /\ exc' = [exc EXCEPT ![j] = NoExc]
    /\ goto(j, "finally")
    /\ UNCHANGED <<closure, handle, engine, reported, uploads, outputs, files, now, cycle>>

\* the finally block without the unlink
task_finally_keeps_input(j) ==
    /\ pc[j] = "finally"
    /\ goto(j, "del")
    /\ UNCHANGED <<jobs, closure, exc, handle, engine, reported, uploads, outputs, files, now, cycle>>

\* finally: try: input_path.unlink() except: pass
task_finally(j) ==
    /\ pc[j] = "finally"
    /\ uploads' = drop(uploads, j)
    /\ goto(j, "del")
    /\ UNCHANGED <<jobs, closure, exc, handle, engine, reported, outputs, files, now, cycle>>

\* __del__ that never frees the handle
del_without_free(j) ==
    /\ pc[j] = "del"
    /\ goto(j, "done")
    /\ UNCHANGED <<jobs, closure, exc, handle, engine, reported, uploads, outputs, files, now, cycle>>

\* the task returns and its codec object is collected (CPython frees a local
\* when the frame that holds the last reference goes): __del__ frees the
\* handle if there is one
__del__(j) ==
    /\ pc[j] = "del"
    /\ IF handle[j] # None
       THEN engine' = [engine EXCEPT ![j].frees = @ + 1]
       ELSE UNCHANGED engine
    /\ goto(j, "done")
    /\ UNCHANGED <<jobs, closure, exc, handle, reported, uploads, outputs, files, now, cycle>>

\* ------------------------------------------------- handlers beside the worker

\* what a job records of a failure: Job has error_message, and no field for
\* the exception's class
job_error(job) == [msg |-> job.error_message]

\* a job table that forgets a job once its worker has finished
status_response_until_done(job_id) ==
    IF job_id \notin DOMAIN jobs \/ pc[job_id] = "done"
    THEN [code |-> 404]
    ELSE [code |-> 200,
          operation |-> jobs[job_id].operation,
          status |-> jobs[job_id].status,
          progress |-> jobs[job_id].progress,
          error |-> jobs[job_id].error_message,
          result_url |-> jobs[job_id].result_url]

\* GET /api/status/<job_id>: 404 when job_id is not in jobs, else the response
\* built from job.status, job.progress, and job.error_message / job.result_url
\* when they are truthy. The handler takes no lock: the fields are those of the
\* state it runs in.
status_response(job_id) ==
    IF job_id \notin DOMAIN jobs
    THEN [code |-> 404]
    ELSE [code |-> 200,
          operation |-> jobs[job_id].operation,
          status |-> jobs[job_id].status,
          progress |-> jobs[job_id].progress,
          error |-> jobs[job_id].error_message,
          result_url |-> jobs[job_id].result_url]

\* the handler reads the job table and writes nothing
get_status(job_id) ==
    /\ status_response(job_id).code \in {200, 404}
    /\ UNCHANGED vars

\* the output file a video_url names: video_url.split('/')[-1]
url_file(video_url) == video_url[2]

\* UPLOAD_FOLDER / original_file. An upload is saved as f"{uuid}_{filename}"
\* and is known here by that uuid, counted from 1; original_file is the name
\* the client sent, with no uuid in front of it: the file with no uuid, 0
orig_path(original_file) == 0

\* the handler without its "if not row" answer
delete_response_always_ok(file_id) ==
    [code |-> 200, message |-> "File deleted successfully"]

\* DELETE /api/files/<file_id>: the response, 404 when SELECT finds no row
delete_response(file_id) ==
    IF file_id \in DOMAIN files
    THEN [code |-> 200, message |-> "File deleted successfully"]
    ELSE [code |-> 404, error |-> "File not found"]

\* the output folder after the handler: without the file video_url names
delete_outputs(file_id) ==
    IF file_id \in DOMAIN files /\ files[file_id].video_url # NoUrl
    THEN drop(outputs, url_file(files[file_id].video_url))
    ELSE outputs

\* the upload folder after the handler: without the file original_file names
delete_uploads(file_id) ==
    IF file_id \in DOMAIN files /\ files[file_id].original_file # NoName
    THEN drop(uploads, orig_path(files[file_id].original_file))
    ELSE uploads

\* the table after the handler: without the row
delete_files(file_id) ==
    IF file_id \in DOMAIN files THEN drop(files, file_id) ELSE files

\* DELETE /api/files/<file_id>: return 404 when there is no row; else unlink
\* the file video_url names if it exists, unlink uploads/<original_file> if it
\* exists, delete the row
delete_file_record(file_id) ==
    /\ outputs' = delete_outputs(file_id)
    /\ uploads' = delete_uploads(file_id)
    /\ files' = delete_files(file_id)
    /\ UNCHANGED <<jobs, closure, pc, exc, handle, engine, reported, now, cycle>>

\* the files cleanup_old_files unlinks
expired == {f \in DOMAIN outputs : now - outputs[f].mtime > expiration_time}

\* POST /api/cleanup: the response counts the files unlinked
cleanup_response == [code |-> 200, deleted_files |-> Cardinality(expired)]

\* POST /api/cleanup
cleanup_old_files ==
    /\ outputs' = [f \in DOMAIN outputs \ expired |-> outputs[f]]
    /\ UNCHANGED <<jobs, closure, pc, exc, handle, engine, reported, uploads, files, now, cycle>>

\* the fields of the FileRecord dataclass
FileRecordFields ==
    {"id", "name", "type", "size", "created_at", "video_url", "original_file", "checksum"}

\* FileRecord(**kwargs): the dataclass's __init__ raises TypeError for a
\* keyword that is not one of its fields
FileRecord(kwargs) ==
    IF DOMAIN kwargs \subseteq FileRecordFields
    THEN [raised |-> FALSE, value |-> kwargs]
    ELSE [raised |-> TRUE, value |-> "TypeError: unexpected keyword argument"]

\* the keywords get_all_files passes for a row; the rows this service inserts
\* leave the chunk_size column NULL
row_kwargs(r) ==
    [id |-> r, name |-> files[r].name, type |-> files[r].type, size |-> files[r].size,
     created_at |-> files[r].created_at, video_url |-> files[r].video_url,
     original_file |-> files[r].original_file, checksum |-> files[r].checksum,
     chunk_size |-> None]

\* SELECT * FROM files ORDER BY created_at DESC: every row once, no row before
\* a newer one; rows of the same created_at in any order
fetchall ==
    {q \in [1..Cardinality(DOMAIN files) -> DOMAIN files] :
        /\ \A i, k \in DOMAIN q : i # k => q[i] # q[k]
        /\ \A i, k \in DOMAIN q : i < k => files[q[i]].created_at >= files[q[k]].created_at}

\* get_all_files: the list of FileRecord objects, or the exception its list
\* comprehension raises; one outcome per order the query can return
get_all_files ==
    {IF \E i \in DOMAIN rows : FileRecord(row_kwargs(rows[i])).raised
     THEN [raised |-> TRUE,
           value |-> FileRecord(row_kwargs(rows[1])).value]
     ELSE [raised |-> FALSE,
           value |-> [i \in DOMAIN rows |-> FileRecord(row_kwargs(rows[i])).value]]
       : rows \in fetchall}

\* GET /api/files: 200 with the records, or 500 with str(e)
get_file_records_response ==
    {IF r.raised THEN [code |-> 500, error |-> r.value]
                 ELSE [code |-> 200, records |-> r.value] : r \in get_all_files}

\* the handler reads the table and writes nothing
get_file_records ==
    /\ get_file_records_response # {}
    /\ UNCHANGED vars

\* time passes
Tick ==
    /\ now < MaxTicks * TickSeconds
    /\ now' = now + TickSeconds
    /\ UNCHANGED <<jobs, closure, pc, exc, handle, engine, reported, uploads, outputs, files, cycle>>

\* --------------------------------------------------------------- the system

FileNames == {<<"report", ".", "pdf">>}

\* the engine outcomes the job specification explores: success, one typed and
\* one untyped failure, with and without a detailed message
JobCodes == {SUCCESS, INVALID_INPUT, IO_ERROR}
JobPtrs == {NULL, "detail"}

\* POST /api/encode and POST /api/decode
submit(j) ==
    \/ \E size \in Sizes, filename \in FileNames : encode_file(j, size, filename)
    \/ \E size \in Sizes, video \in 0..MaxJobs : decode_video(j, size, video)

\* the engine's part of encoder.encode(...) / decoder.decode(...)
engine_call(j) ==
    \/ \E total_bytes \in 0..MaxBytes : progress_callback(j, total_bytes)
    \/ \E error_code \in JobCodes, ptr \in JobPtrs, wrote \in BOOLEAN, size \in Sizes :
           engine_return(j, error_code, ptr, wrote, size)

\* threading.Thread(target=encode_task / decode_task)
worker(j) ==
    \/ task_running(j)
    \/ task_stat(j)
    \/ _create_handle(j)
    \/ engine_call(j)
    \/ task_verify(j)
    \/ task_completed(j)
    \/ task_progress100(j)
    \/ task_result_url(j)
    \/ task_registry(j)
    \/ task_log(j)
    \/ task_except_status(j)
    \/ task_except_message(j)
    \/ task_finally(j)
    \/ __del__(j)

Next ==
    \/ \E j \in JobIds : submit(j)
    \/ \E j \in JobIds : worker(j)
    \/ \E job_id \in JobIds : get_status(job_id)
    \/ \E file_id \in JobIds : delete_file_record(file_id)

Spec == Init /\ [][Next]_vars

\* ------------------------------------------------- the system, scheduled
\* The same handlers and worker under the scheduling the threads get. Uploads
\* of one size, and engine failures without a detailed message: the worker
\* takes the same path whatever the size and the message are.

fair_submit(j) ==
    \/ \E filename \in FileNames : encode_file(j, MaxSize, filename)
    \/ \E video \in 0..MaxJobs : decode_video(j, MaxSize, video)

fair_engine_call(j) ==
    \/ \E total_bytes \in 0..MaxBytes : progress_callback(j, total_bytes)
    \/ \E error_code \in JobCodes, wrote \in BOOLEAN :
           engine_return(j, error_code, NULL, wrote, MaxSize)

fair_worker(j) ==
    \/ task_running(j)
    \/ task_stat(j)
    \/ _create_handle(j)
    \/ fair_engine_call(j)
    \/ task_verify(j)
    \/ task_completed(j)
    \/ task_progress100(j)
    \/ task_result_url(j)
    \/ task_registry(j)
    \/ task_log(j)
    \/ task_except_status(j)
    \/ task_except_message(j)
    \/ task_finally(j)
    \/ __del__(j)

FairNext ==
    \/ \E j \in JobIds : fair_submit(j)
    \/ \E j \in JobIds : fair_worker(j)
    \/ \E job_id \in JobIds : get_status(job_id)
    \/ \E file_id \in JobIds : delete_file_record(file_id)

\* each started worker thread keeps being run by the interpreter, and the
\* engine call it makes returns
FairSpec == Init /\ [][FairNext]_vars /\ \A j \in JobIds : WF_vars(fair_worker(j))

\* ------------------------------------------------ the registry and the store
\* The handlers that read and delete records and output files, beside workers
\* whose engine call succeeds or fails at once, while time passes. Uploads of
\* one size; names with a directory, with several dots, and with a leading dot.

StoreNames ==
    {<<"report", ".", "pdf">>, <<"dir", "/", "a", ".", "tar", ".", "gz">>, <<".", "bashrc">>}

store_submit(j) ==
    \/ \E filename \in StoreNames : encode_file(j, MaxSize, filename)
    \/ \E video \in 0..MaxJobs : decode_video(j, MaxSize, video)

store_engine_call(j) ==
    \E error_code \in {SUCCESS, IO_ERROR}, wrote \in BOOLEAN :
        engine_return(j, error_code, NULL, wrote, MaxSize)

store_worker(j) ==
    \/ task_running(j)
    \/ task_stat(j)
    \/ _create_handle(j)
    \/ store_engine_call(j)
    \/ task_verify(j)
    \/ task_completed(j)
    \/ task_progress100(j)
    \/ task_result_url(j)
    \/ task_registry(j)
    \/ task_log(j)
    \/ task_except_status(j)
    \/ task_except_message(j)
    \/ task_finally(j)
    \/ __del__(j)

NextStore ==
    \/ \E j \in JobIds : store_submit(j)
    \/ \E j \in JobIds : store_worker(j)
    \/ \E file_id \in JobIds : delete_file_record(file_id)
    \/ get_file_records
    \/ cleanup_old_files
    \/ Tick

SpecStore == Init /\ [][NextStore]_vars

\* ------------------------------------------------ the engine's error codes
\* The worker with an engine call that returns every code of ErrorCode, with
\* every kind of last-error pointer. Uploads of one size and name, an output
\* file always written: the exception raised depends on the code and the
\* pointer alone.

codes_submit(j) ==
    \/ \E filename \in FileNames : encode_file(j, MaxSize, filename)
    \/ decode_video(j, MaxSize, 0)

codes_engine_call(j) ==
    \/ progress_callback(j, MaxBytes)
    \/ \E error_code \in ErrorCode, ptr \in ErrPtrs :
           engine_return(j, error_code, ptr, TRUE, MaxSize)

codes_worker(j) ==
    \/ task_running(j)
    \/ task_stat(j)
    \/ _create_handle(j)
    \/ codes_engine_call(j)
    \/ task_verify(j)
    \/ task_completed(j)
    \/ task_progress100(j)
    \/ task_result_url(j)
    \/ task_registry(j)
    \/ task_log(j)
    \/ task_except_status(j)
    \/ task_except_message(j)
    \/ task_finally(j)
    \/ __del__(j)

NextCodes ==
    \/ \E j \in JobIds : codes_submit(j)
    \/ \E j \in JobIds : codes_worker(j)

SpecCodes == Init /\ [][NextCodes]_vars

\* ------------------------------------------- the lookup of a decode request
\* The files table outlives the process (init_db creates it only if it is not
\* there), the jobs dict does not: the service starts with no job and with
\* whatever rows the table holds. The decode handler's query is run on every
\* table of up to MaxRows rows, rows with the same video_url among them.

LookupNames == {NoName, <<"report", ".", "pdf">>, <<"notes", ".", "txt">>}
LookupTimes == {0, TickSeconds}
LookupUrls == {download(1), download(2)}

LookupRows ==
    [name : {<<"report", ".", "pdf">>}, type : {"encoded"}, size : {MaxSize},
     created_at : LookupTimes, video_url : LookupUrls,
     original_file : LookupNames, checksum : {<<>>}]

InitLookup ==
    /\ jobs = <<>>
    /\ closure = <<>>
    /\ pc = [j \in JobIds |-> "idle"]
    /\ exc = [j \in JobIds |-> NoExc]
    /\ handle = [j \in JobIds |-> None]
    /\ engine = [j \in JobIds |-> [creates |-> 0, frees |-> 0, used_freed |-> FALSE]]
    /\ reported = [j \in JobIds |-> 0]
    /\ uploads = <<>>
    /\ outputs = <<>>
    /\ files \in UNION {[ids -> LookupRows] : ids \in SUBSET (1..MaxRows)}
    /\ now = TickSeconds
    /\ cycle = NoCycle

NextLookup ==
    \E j \in JobIds, video \in 0..MaxJobs : decode_video(j, MaxSize, video)

SpecLookup == InitLookup /\ [][NextLookup]_vars

\* ------------------------------------------------- the codec bridge's words

\* ctypes.c_uint32(x): x modulo 2^32, kept as its two 16-bit halves <<high, low>>
c_uint32(x) == <<(x \div 65536) % 65536, x % 65536>>

\* ctypes.c_size_t(x): x modulo 2^64 as four 16-bit halves, highest first; a
\* Python int of the modelled range extends its sign into the upper halves
c_size_t(x) ==
    LET sign == IF x < 0 THEN 65535 ELSE 0
    IN  <<sign, sign, (x \div 65536) % 65536, x % 65536>>

\* a c_void_p result that is the null pointer reads as None; a handle is <<session>>
NoHandle == <<>>

\* Encoder.__init__ / Decoder.__init__: the parameters are stored as given
Encoder(width, height, fps, chunk_size) ==
    [width |-> width, height |-> height, fps |-> fps, chunk_size |-> chunk_size,
     _handle |-> NoHandle]

Decoder(width, height, chunk_size) ==
    [width |-> width, height |-> height, chunk_size |-> chunk_size, _handle |-> NoHandle]

\* the arguments Encoder._create_handle passes to f2v2f_encode_create
encode_create_args(self) ==
    [width |-> c_uint32(self.width), height |-> c_uint32(self.height),
     fps |-> c_uint32(self.fps), chunk_size |-> c_size_t(self.chunk_size)]

\* the decoder is created by f2v2f_decode_create(), which takes no parameter:
\* the engine's own defaults, whatever the Decoder object was given
decode_create_args_default(self) ==
    [width |-> c_uint32(1920), height |-> c_uint32(1080), chunk_size |-> c_size_t(4096)]

\* the arguments Decoder._create_handle passes to f2v2f_decode_create_with_params
decode_create_args(self) ==
    [width |-> c_uint32(self.width), height |-> c_uint32(self.height),
     chunk_size |-> c_size_t(self.chunk_size)]

\* ------------------------------------------------------------ the codec engine
\* The native library is consumed through its C entry points only; what they
\* do is taken from the engine's documented contract.

\* the number a 32-bit or 64-bit word stands for; one beyond the modelled
\* integers counts as the largest of them
word_value(w) ==
    LET n == Len(w)
    IN  IF (\A i \in 1..(n - 2) : w[i] = 0) /\ w[n - 1] < 32768
        THEN w[n - 1] * 65536 + w[n]
        ELSE 2147483647

\* create_encoder / create_decoder: a handle on a session for positive
\* parameters, the null pointer otherwise
engine_create(args) ==
    IF \A k \in DOMAIN args : word_value(args[k]) > 0
    THEN <<[k \in DOMAIN args |-> word_value(args[k])]>>
    ELSE NoHandle

Take(seq, n) == SubSeq(seq, 1, IF n < Len(seq) THEN n ELSE Len(seq))
Drop(seq, n) == SubSeq(seq, n + 1, Len(seq))

\* one fixed-size unit: the chunk's bytes, zero-filled to the chunk size
unit(chunk, chunk_size) == [i \in 1..chunk_size |-> IF i <= Len(chunk) THEN chunk[i] ELSE 0]

\* the input stream partitioned into fixed-size units, one per frame
RECURSIVE frames_of(_, _)
frames_of(B, chunk_size) ==
    IF B = <<>> THEN <<>>
    ELSE <<unit(Take(B, chunk_size), chunk_size)>> \o frames_of(Drop(B, chunk_size), chunk_size)

\* the payload read back from frames, chunk_size bytes from each
RECURSIVE payload_of(_, _)
payload_of(frames, chunk_size) ==
    IF frames = <<>> THEN <<>>
    ELSE Take(Head(frames), chunk_size) \o payload_of(Tail(frames), chunk_size)

\* encode(handle, input, output): frames of the session's geometry, and the
\* stream's length; an empty input is either rejected or encoded to no frame
engine_encode_file(session, fs, input_path, output_path, reject_empty) ==
    IF input_path \notin DOMAIN fs
    THEN [code |-> IO_ERROR, fs |-> fs]
    ELSE IF fs[input_path] = <<>> /\ reject_empty
    THEN [code |-> INVALID_INPUT, fs |-> fs]
    ELSE [code |-> SUCCESS,
          fs |-> [f \in DOMAIN fs \cup {output_path} |->
                     IF f = output_path
                     THEN [width |-> session.width, height |-> session.height,
                           length |-> Len(fs[input_path]),
                           frames |-> frames_of(fs[input_path], session.chunk_size)]
                     ELSE fs[f]]]

\* decode(handle, input, output): the frames must have the session's geometry
\* and hold a whole unit of the session's chunk size each
engine_decode_file(session, fs, input_path, output_path) ==
    IF input_path \notin DOMAIN fs
    THEN [code |-> IO_ERROR, fs |-> fs]
    ELSE LET video == fs[input_path]
         IN  IF \/ video.width # session.width
                \/ video.height # session.height
                \/ \E i \in DOMAIN video.frames : Len(video.frames[i]) < session.chunk_size
             THEN [code |-> DECODING_ERROR, fs |-> fs]
             ELSE [code |-> SUCCESS,
                   fs |-> [f \in DOMAIN fs \cup {output_path} |->
                              IF f = output_path
                              THEN Take(payload_of(video.frames, session.chunk_size),
                                        video.length)
                              ELSE fs[f]]]

\* ------------------------------------------------ the answer of a submit
\* The request handler after thread.start(): it builds its answer from the
\* job object while the worker it started runs. The handler's thread can be
\* held up for any time, so the answer is built in any state from the start
\* of the worker on.

\* jsonify({"job_id": job_id, "status": job.status.value, "message": ...}), 202
submit_response(j) == [code |-> 202, job_id |-> j, status |-> jobs[j].status]

\* the handler reads the job and writes nothing
submit_return(j) ==
    /\ j \in DOMAIN jobs
    /\ submit_response(j).code = 202
    /\ UNCHANGED vars

NextSubmit ==
    \/ \E j \in JobIds : codes_submit(j)
    \/ \E j \in JobIds : submit_return(j)
    \/ \E j \in JobIds : codes_worker(j)

SpecSubmit == Init /\ [][NextSubmit]_vars

\* ------------------------------------------- _check_error, call by call
\* One call of _check_error for every return code and every kind of pointer
\* f2v2f_get_last_error can give, with the calls it makes to the library
\* counted.

InitError ==
    /\ AppInit
    /\ cycle \in [pc : {"check"}, error_code : ErrorCode, ptr : ErrPtrs,
                  error_msg_ptr : {NULL}, error_msg : {None},
                  get_last_error : {0}, free_string : {0}, freed : {NULL}, exc : {NoExc}]

\* if error_code == ErrorCode.SUCCESS: return
check_success ==
    /\ cycle.pc = "check"
    /\ cycle' = [cycle EXCEPT !.pc = IF cycle.error_code = SUCCESS THEN "returned" ELSE "get"]
    /\ UNCHANGED jobvars

\* error_msg_ptr = _lib.f2v2f_get_last_error(); if error_msg_ptr: ...
f2v2f_get_last_error ==
    /\ cycle.pc = "get"
    /\ cycle' = [cycle EXCEPT !.get_last_error = @ + 1,
                              !.error_msg_ptr = cycle.ptr,
                              !.pc = IF cycle.ptr # NULL THEN "decode" ELSE "map"]
    /\ UNCHANGED jobvars

\* a try block that frees the string after decoding it, with no finally
after_decode_without_finally(ptr) == IF ptr = BadUtf8 THEN "map" ELSE "free"

\* try: decode / except: error_msg = None / finally: the string is freed
\* whether decoding raised or not
after_decode(ptr) == "free"

\* error_msg = ctypes.cast(error_msg_ptr, c_char_p).value.decode('utf-8')
decode_utf8 ==
    /\ cycle.pc = "decode"
    /\ cycle' = [cycle EXCEPT !.error_msg = decode_msg(cycle.error_msg_ptr),
                              !.pc = after_decode(cycle.error_msg_ptr)]
    /\ UNCHANGED jobvars

\* _lib.f2v2f_free_string(error_msg_ptr)
f2v2f_free_string ==
    /\ cycle.pc = "free"
    /\ cycle' = [cycle EXCEPT !.free_string = @ + 1,
                              !.freed = cycle.error_msg_ptr,
                              !.pc = "map"]
    /\ UNCHANGED jobvars

\* exc_type, msg = error_map.get(...); raise exc_type(msg)
raise_mapped ==
    /\ cycle.pc = "map"
    /\ cycle' = [cycle EXCEPT !.exc = _check_error(cycle.error_code, cycle.ptr),
                              !.pc = "raised"]
    /\ UNCHANGED jobvars

NextError ==
    \/ check_success
    \/ f2v2f_get_last_error
    \/ decode_utf8
    \/ f2v2f_free_string
    \/ raise_mapped

SpecError == InitError /\ [][NextError]_vars

\* ------------------------------------------------- creating a codec handle
\* Encoder(...) and Decoder(...) made with every combination of a negative, a
\* zero and two positive values, then _create_handle as encode() / decode()
\* call it first.

CreateParams == {0 - 1, 0, 1, MaxChunk}

\* a caller about to make an Encoder or a Decoder
InitCreate ==
    /\ AppInit
    /\ cycle \in [pc : {"new"}, kind : {"Encoder", "Decoder"},
                  width : CreateParams, height : CreateParams, fps : CreateParams,
                  chunk_size : CreateParams,
                  self : {None}, passed : {None}, exc : {NoExc}]

\* encoder = Encoder(width, height, fps, chunk_size)
Encoder__init__ ==
    /\ cycle.pc = "new" /\ cycle.kind = "Encoder"
    /\ cycle' = [cycle EXCEPT !.pc = "made",
                              !.self = Encoder(cycle.width, cycle.height, cycle.fps,
                                               cycle.chunk_size)]
    /\ UNCHANGED jobvars

\* decoder = Decoder(width, height, chunk_size)
Decoder__init__ ==
    /\ cycle.pc = "new" /\ cycle.kind = "Decoder"
    /\ cycle' = [cycle EXCEPT !.pc = "made",
                              !.self = Decoder(cycle.width, cycle.height, cycle.chunk_size)]
    /\ UNCHANGED jobvars

\* self._create_handle(): the engine is called with the converted parameters;
\* a null result raises ConfigError
create_handle(args, msg) ==
    LET _handle == engine_create(args)
    IN  cycle' = [cycle EXCEPT !.pc = IF _handle = NoHandle THEN "raised" ELSE "created",
                               !.self._handle = _handle,
                               !.passed = args,
                               !.exc = IF _handle = NoHandle
                                       THEN [type |-> "ConfigError", msg |-> msg]
                                       ELSE NoExc]

Encoder_create_handle ==
    /\ cycle.pc = "made" /\ cycle.kind = "Encoder"
    /\ create_handle(encode_create_args(cycle.self), "Failed to create encoder")
    /\ UNCHANGED jobvars

Decoder_create_handle ==
    /\ cycle.pc = "made" /\ cycle.kind = "Decoder"
    /\ create_handle(decode_create_args(cycle.self), "Failed to create decoder")
    /\ UNCHANGED jobvars

NextCreate ==
    \/ Encoder__init__
    \/ Decoder__init__
    \/ Encoder_create_handle
    \/ Decoder_create_handle

SpecCreate == InitCreate /\ [][NextCreate]_vars

\* ------------------------------------------------------------ test_full_cycle

Bytes == 0..MaxByte
Geometries == {<<1280, 720>>, <<1920, 1080>>}
ChunkSizes == 1..MaxChunk

RECURSIVE SeqsUpTo(_)
SeqsUpTo(n) ==
    IF n = 0 THEN {<<>>}
    ELSE LET shorter == SeqsUpTo(n - 1)
         IN  shorter \cup {Append(b, x) : b \in {q \in shorter : Len(q) = n - 1}, x \in Bytes}

\* SHA-256 of a file's bytes; two contents have the same digest only if equal
sha256(bytes) == <<"sha256", bytes>>

\* the script about to run on test data and one parameter set, which it gives
\* to the encoder and to the decoder alike
CycleStart(test_data, geometry, chunk_size) ==
    [pc |-> "start", test_data |-> test_data,
     width |-> geometry[1], height |-> geometry[2], fps |-> 30, chunk_size |-> chunk_size,
     fs |-> <<>>, input_checksum |-> None, output_checksum |-> None,
     encoder |-> None, decoder |-> None, io_fault |-> FALSE,
     exc |-> NoExc, verdict |-> None]

InitCycle ==
    /\ AppInit
    /\ cycle \in {CycleStart(test_data, geometry, chunk_size) :
                      test_data \in SeqsUpTo(MaxLen), geometry \in Geometries,
                      chunk_size \in ChunkSizes}

\* write test_data to input_file, input_checksum = calculate_checksum(input_file)
cycle_input ==
    /\ cycle.pc = "start"
    /\ cycle' = [cycle EXCEPT !.pc = "encode",
                              !.fs = [f \in {"input_file"} |-> cycle.test_data],
                              !.input_checksum = sha256(cycle.test_data)]
    /\ UNCHANGED jobvars

\* the script stops with an uncaught exception
cycle_raise(c, e) == [c EXCEPT !.pc = "raised", !.exc = e]

\* after an engine call: _check_error(error_code), with the engine's message
cycle_checked(c, error_code, ptr, label) ==
    IF error_code = SUCCESS
    THEN [c EXCEPT !.pc = label]
    ELSE cycle_raise(c, _check_error(error_code, ptr))

\* encoder = Encoder(...); encoder.encode(input_file, video_file)
Encoder_encode ==
    /\ cycle.pc = "encode"
    /\ LET self == Encoder(cycle.width, cycle.height, cycle.fps, cycle.chunk_size)
           _handle == engine_create(encode_create_args(self))
           session == _handle[1]
       IN  IF _handle = NoHandle
           THEN cycle' = cycle_raise([cycle EXCEPT !.encoder = self],
                                     [type |-> "ConfigError", msg |-> "Failed to create encoder"])
           ELSE \E ptr \in JobPtrs :
                  \/ \E reject_empty \in BOOLEAN :
                       LET r == engine_encode_file(session, cycle.fs, "input_file", "video_file",
                                                   reject_empty)
                       IN  cycle' = cycle_checked(
                               [cycle EXCEPT !.encoder = [self EXCEPT !._handle = _handle],
                                             !.fs = r.fs],
                               r.code, ptr, "decode")
                  \/ cycle' = cycle_checked(
                         [cycle EXCEPT !.encoder = [self EXCEPT !._handle = _handle],
                                       !.io_fault = TRUE],
                         IO_ERROR, ptr, "decode")
    /\ UNCHANGED jobvars

\* decoder = Decoder(...); decoder.decode(video_file, output_file)
Decoder_decode ==
    /\ cycle.pc = "decode"
    /\ LET self == Decoder(cycle.width, cycle.height, cycle.chunk_size)
           _handle == engine_create(decode_create_args(self))
           session == _handle[1]
       IN  IF _handle = NoHandle
           THEN cycle' = cycle_raise([cycle EXCEPT !.decoder = self],
                                     [type |-> "ConfigError", msg |-> "Failed to create decoder"])
           ELSE \E ptr \in JobPtrs :
                  \/ LET r == engine_decode_file(session, cycle.fs, "video_file", "output_file")
                     IN  cycle' = cycle_checked(
                             [cycle EXCEPT !.decoder = [self EXCEPT !._handle = _handle],
                                           !.fs = r.fs],
                             r.code, ptr, "verify")
                  \/ cycle' = cycle_checked(
                         [cycle EXCEPT !.decoder = [self EXCEPT !._handle = _handle],
                                       !.io_fault = TRUE],
                         IO_ERROR, ptr, "verify")
    /\ UNCHANGED jobvars

\* output_checksum = calculate_checksum(output_file), compared with the input's
cycle_verify ==
    /\ cycle.pc = "verify"
    /\ cycle' = IF "output_file" \in DOMAIN cycle.fs
                THEN LET digest == sha256(cycle.fs["output_file"])
                     IN  [cycle EXCEPT !.pc = "cleanup",
                                       !.output_checksum = digest,
                                       !.verdict = IF cycle.input_checksum = digest
                                                   THEN "SUCCESS" ELSE "FAILURE"]
                ELSE cycle_raise(cycle, [type |-> "FileNotFoundError",
                                         msg |-> "No such file: output_file"])
    /\ UNCHANGED jobvars

\* the three files are unlinked
cycle_cleanup ==
    /\ cycle.pc = "cleanup"
    /\ cycle' = [cycle EXCEPT !.pc = "done", !.fs = <<>>]
    /\ UNCHANGED jobvars

NextCycle ==
    \/ cycle_input
    \/ Encoder_encode
    \/ Decoder_decode
    \/ cycle_verify
    \/ cycle_cleanup

SpecCycle == InitCycle /\ [][NextCycle]_vars

\* ------------------------------------------- encode, then decode, by the jobs
\* An upload encoded by an encode job with the parameters of its form, and the
\* video then decoded by a decode job. The form's defaults are among the
\* parameter sets, and so is 1280 x 720.

FormChunks == {1, MaxChunk, 4096}

\* POST /api/encode with a file and the form fields width, height, chunk_size
InitParams ==
    /\ AppInit
    /\ cycle \in [pc : {"encode"}, width : {1280, 1920}, height : {720, 1080}, fps : {30},
                  chunk_size : FormChunks,
                  fs : {[f \in {"upload"} |-> bytes] : bytes \in SeqsUpTo(MaxLen)},
                  encoder : {None}, decoder : {None},
                  encode_status : {PENDING}, decode_status : {PENDING}]

\* the status a worker leaves for an engine return code
status_for(error_code) == IF error_code = SUCCESS THEN COMPLETED ELSE FAILED

\* encode_task: Encoder(width=width, height=height, fps=fps,
\* chunk_size=chunk_size), encoder.encode(input_path, output_path, ...)
params_encode_task ==
    /\ cycle.pc = "encode"
    /\ LET self == Encoder(cycle.width, cycle.height, cycle.fps, cycle.chunk_size)
           args == encode_create_args(self)
           _handle == engine_create(args)
       IN  IF _handle = NoHandle
           THEN cycle' = [cycle EXCEPT !.pc = "encode_failed", !.encoder = args,
                                       !.encode_status = FAILED]
           ELSE \E reject_empty \in BOOLEAN :
                  LET r == engine_encode_file(_handle[1], cycle.fs, "upload", "video",
                                              reject_empty)
                  IN  cycle' = [cycle EXCEPT
                                   !.pc = IF r.code = SUCCESS THEN "decode" ELSE "encode_failed",
                                   !.encoder = args,
                                   !.fs = r.fs,
                                   !.encode_status = status_for(r.code)]
    /\ UNCHANGED jobvars

\* Decoder(): the defaults of Decoder.__init__
Decoder_defaults == Decoder(1920, 1080, 4096)

\* decode_task: decoder = Decoder(), whatever the video was encoded with
decode_task_Decoder(c) == Decoder_defaults

\* decode_task: decoder = Decoder(); decoder.decode(input_path, output_path, ...)
params_decode_task ==
    /\ cycle.pc = "decode"
    /\ LET self == decode_task_Decoder(cycle)
           args == decode_create_args(self)
           _handle == engine_create(args)
       IN  IF _handle = NoHandle
           THEN cycle' = [cycle EXCEPT !.pc = "decoded", !.decoder = args,
                                       !.decode_status = FAILED]
           ELSE LET r == engine_decode_file(_handle[1], cycle.fs, "video", "decoded")
                IN  cycle' = [cycle EXCEPT !.pc = "decoded",
                                           !.decoder = args,
                                           !.fs = r.fs,
                                           !.decode_status = status_for(r.code)]
    /\ UNCHANGED jobvars

NextParams ==
    \/ params_encode_task
    \/ params_decode_task

SpecParams == InitParams /\ [][NextParams]_vars

\* ------------------------------------------------------------------ claims

\* the legal moves of a job's status
StatusSteps == {<<PENDING, RUNNING>>, <<RUNNING, COMPLETED>>, <<RUNNING, FAILED>>}

\* C1: a job is created Pending, and its status only moves Pending -> Running ->
\* Completed or Pending -> Running -> Failed: no step is skipped or reversed, and
\* a Completed or Failed job never changes status again.
C1_StatusLifecycle ==
    [][\A j \in JobIds :
          /\ (j \notin DOMAIN jobs /\ j \in DOMAIN jobs') => jobs'[j].status = PENDING
          /\ (j \in DOMAIN jobs) =>
                /\ j \in DOMAIN jobs'
                /\ \/ jobs'[j].status = jobs[j].status
                   \/ <<jobs[j].status, jobs'[j].status>> \in StatusSteps]_vars

\* C2: once a job is Running its progress never decreases, and when the worker
\* of a Completed job has ended its progress is exactly 100.
C2_ProgressMonotonic ==
    /\ [][\A j \in DOMAIN jobs :
             jobs[j].status # PENDING => jobs'[j].progress >= jobs[j].progress]_vars
    /\ [](\A j \in DOMAIN jobs :
             (pc[j] = "done" /\ jobs[j].status = COMPLETED) => jobs[j].progress = 100)

\* C3: every job's progress is an integer between 0 and 100 inclusive.
C3_ProgressRange ==
    \A j \in DOMAIN jobs : jobs[j].progress \in 0..100

\* C4: every status response that says Completed also says progress 100 and
\* carries a result_url, and every response that says Failed carries an error.
C4_SnapshotConsistent ==
    \A job_id \in JobIds :
        LET r == status_response(job_id) IN
        r.code = 200 =>
            /\ r.status = COMPLETED => (r.progress = 100 /\ r.result_url # NoUrl)
            /\ r.status = FAILED => r.error # None

\* C5: a job has an error only if it is Failed and a result_url only if it is
\* Completed.
C5_ErrorAndResultMatchStatus ==
    \A j \in DOMAIN jobs :
        /\ jobs[j].error_message # None => jobs[j].status = FAILED
        /\ jobs[j].result_url # NoUrl => jobs[j].status = COMPLETED

\* C9: a job that has been set Completed stays Completed, whatever happens to
\* its output file or to the registry afterwards.
C9_CompletedStaysCompleted ==
    [][\A j \in DOMAIN jobs :
          jobs[j].status = COMPLETED => jobs'[j].status = COMPLETED]_vars

\* the failures that happen before the worker holds a handle
PreHandleFailures == {"No such file: input_path", "Failed to create encoder", "Failed to create decoder"}

\* C7 as stated: whatever the outcome, when the worker has ended exactly one
\* handle was created and exactly one destroy of it occurred, and no handle is
\* destroyed twice or used after its destroy.
C7_ExactlyOneCreateAndDestroy ==
    \A j \in JobIds :
        /\ engine[j].frees <= 1
        /\ ~engine[j].used_freed
        /\ pc[j] = "done" => (engine[j].creates = 1 /\ engine[j].frees = 1)

\* C7 amended: a worker creates at most one handle; when reading the input
\* size or creating the handle fails it has created none and destroys none; in
\* every other outcome it has created exactly one, and destroys it exactly
\* once, as its last step before it ends; no handle is destroyed twice or used
\* after its destroy.
C7_HandleHygiene ==
    \A j \in JobIds :
        /\ engine[j].creates = (IF handle[j] = None THEN 0 ELSE 1)
        /\ engine[j].frees <= engine[j].creates
        /\ ~engine[j].used_freed
        /\ engine[j].frees = 1 => pc[j] = "done"
        /\ pc[j] = "done" =>
              /\ engine[j].frees = engine[j].creates
              /\ engine[j].creates = 0 <=> jobs[j].error_message \in PreHandleFailures

\* a worker that ended after an engine failure, its one handle destroyed once
C7_Witness ==
    \E j \in JobIds :
        /\ pc[j] = "done"
        /\ jobs[j].status = FAILED
        /\ jobs[j].error_message = "I/O error"
        /\ engine[j].creates = 1
        /\ engine[j].frees = 1

\* C8: every exception raised in the unit of work is caught by the worker, sets
\* the job Failed, and the job then carries the kind and the message of that
\* exception.
C8_FailedCarriesKindAndMessage ==
    [][\A j \in JobIds :
          /\ (exc[j] = NoExc /\ exc'[j] # NoExc) => pc'[j] = "except_status"
          /\ (pc[j] = "except_status" /\ pc'[j] # pc[j]) => jobs'[j].status = FAILED
          /\ (pc[j] = "except_message" /\ pc'[j] # pc[j]) =>
                job_error(jobs'[j]) = [kind |-> exc[j].type, msg |-> exc[j].msg]]_vars

\* the output file of job j is there and not empty
NonEmptyOutput(j) == j \in DOMAIN outputs /\ outputs[j].size > 0

\* C10: a job is set Completed only after the check that follows the
\* engine call found its output file present and non-empty; a job whose output
\* is missing or empty at that check is set Failed, and a Failed job is never
\* Completed.
C10_CompletedOnlyIfNonEmpty ==
    [][\A j \in DOMAIN jobs :
          /\ (jobs[j].status # COMPLETED /\ jobs'[j].status = COMPLETED) => pc[j] = "completed"
          /\ (pc[j] # "completed" /\ pc'[j] = "completed") =>
                (pc[j] = "verify" /\ NonEmptyOutput(j))
          /\ (pc[j] = "verify" /\ pc'[j] # "verify" /\ ~NonEmptyOutput(j)) =>
                pc'[j] = "except_status"
          /\ (pc[j] = "except_status" /\ pc'[j] # pc[j]) => jobs'[j].status = FAILED
          /\ jobs[j].status = FAILED => jobs'[j].status = FAILED]_vars

C11_JobTerminates ==
    /\ \A j \in JobIds :
           (j \in DOMAIN jobs) ~> (pc[j] = "done" /\ jobs[j].status \in {COMPLETED, FAILED})
    /\ [][\A j \in DOMAIN jobs :
              jobs'[j].status # jobs[j].status => (fair_worker(j) /\ pc'[j] # pc[j])]_vars

\* a job still Running while its engine call is under way
C11_Witness ==
    \E j \in DOMAIN jobs : jobs[j].status = RUNNING /\ pc[j] = "encode" /\ jobs[j].progress > 0

C13_LatestRecordWins ==
    [][\A j \in JobIds, video \in 0..MaxJobs :
          decode_video(j, MaxSize, video) =>
              LET matching == {r \in DOMAIN files : files[r].video_url = download(video)}
              IN  IF matching = {}
                  THEN closure'[j].original_filename = NoName
                  ELSE \E r \in matching :
                          /\ \A q \in matching : files[q].created_at <= files[r].created_at
                          /\ closure'[j].original_filename = files[r].original_file]_vars

\* a lookup answered from the newer of two rows with the same url and
\* different names
C13_Witness ==
    /\ 1 \in DOMAIN jobs
    /\ closure[1].original_filename # NoName
    /\ Cardinality(DOMAIN files) > 1
    /\ \A r \in DOMAIN files : files[r].video_url = download(1)
    /\ \E r, q \in DOMAIN files :
           /\ files[q].created_at < files[r].created_at
           /\ files[q].original_file # NoName
           /\ files[q].original_file # files[r].original_file
           /\ \A x \in DOMAIN files : files[x].created_at = files[r].created_at => x = r
           /\ closure[1].original_filename = files[r].original_file

\* C14: a row of type "encoded" is the one a Completed encode job registered,
\* with the name the client gave and the url of the job's output; a decode
\* request for a video whose url has a row with a name gets an output name
\* (after the uuid) with the stem and the extension of that name, and a decode
\* request that finds no row with a name gets "decoded.bin".
C14_ProvenanceRecovery ==
    /\ [](\A r \in DOMAIN files :
            files[r].type = "encoded" =>
                /\ jobs[r].operation = "encode"
                /\ files[r].original_file = closure[r].original_filename
                /\ files[r].video_url = download(r))
    /\ [][\A r \in DOMAIN files' \ DOMAIN files : jobs[r].status = COMPLETED]_vars
    /\ [][\A j \in JobIds, video \in 0..MaxJobs :
              decode_video(j, MaxSize, video) =>
                  LET named == {r \in DOMAIN files :
                                   /\ files[r].video_url = download(video)
                                   /\ files[r].original_file # NoName}
                  IN  IF named = {}
                      THEN closure'[j].output_name = <<"decoded", ".", "bin">>
                      ELSE \E r \in named :
                             /\ Path_stem(closure'[j].output_name) =
                                    Path_stem(files[r].original_file)
                             /\ Path_suffix(closure'[j].output_name) =
                                    Path_suffix(files[r].original_file)]_vars

\* a decode of the video of an encode job registered under "dir/a.tar.gz",
\* with the output name "a.tar.gz"
C14_Witness ==
    \E j, k \in DOMAIN jobs :
        /\ jobs[j].operation = "encode" /\ jobs[j].status = COMPLETED
        /\ j \in DOMAIN files
        /\ files[j].original_file = <<"dir", "/", "a", ".", "tar", ".", "gz">>
        /\ jobs[k].operation = "decode"
        /\ closure[k].original_filename = files[j].original_file
        /\ closure[k].output_name = <<"a", ".", "tar", ".", "gz">>

\* C15: when DELETE /api/files/<file_id> answers 200 for a row that exists,
\* afterwards the table has no row of that id (the same request then answers
\* 404), the output folder has no file of the name the row's video_url gave,
\* and the upload folder no longer has the input file the row was made from.
C15_DeletionAtomicity ==
    [][\A file_id \in JobIds :
           (delete_file_record(file_id) /\ delete_response(file_id).code = 200) =>
               /\ file_id \notin DOMAIN files'
               /\ delete_response(file_id)'.code = 404
               /\ url_file(files[file_id].video_url) \notin DOMAIN outputs'
               /\ file_id \notin DOMAIN uploads']_vars

\* C16: in every state (a DELETE request is one step, so no state lies inside
\* one) each row of the table names an output file that exists, and each
\* output file of a job that finished Completed is named by a row.
C16_RecordIffArtifact ==
    /\ \A r \in DOMAIN files : url_file(files[r].video_url) \in DOMAIN outputs
    /\ \A f \in DOMAIN outputs :
           (pc[f] = "done" /\ jobs[f].status = COMPLETED) =>
               \E r \in DOMAIN files : url_file(files[r].video_url) = f

\* C17: DELETE /api/files/<file_id> for an id the table has no row of answers
\* 404 and leaves the table, the output folder and the upload folder as they
\* were.
C17_DeleteNotFound ==
    /\ [](\A file_id \in (0..(MaxJobs + 1)) \ DOMAIN files :
             /\ delete_response(file_id).code = 404
             /\ delete_files(file_id) = files
             /\ delete_outputs(file_id) = outputs
             /\ delete_uploads(file_id) = uploads)
    /\ [][\A file_id \in JobIds :
              (delete_file_record(file_id) /\ file_id \notin DOMAIN files) =>
                  UNCHANGED <<files, outputs, uploads>>]_vars

\* a Completed job whose output file has no row, next to a row with its output
\* file: the request for the first id answers 404
C17_Witness ==
    \E j, k \in DOMAIN jobs :
        /\ jobs[j].status = COMPLETED /\ pc[j] = "done"
        /\ j \notin DOMAIN files /\ j \in DOMAIN outputs
        /\ k \in DOMAIN files /\ k \in DOMAIN outputs
        /\ delete_response(j).code = 404

\* C18: GET /api/files answers 200 with one record for every row of the
\* table, no row twice, and no record before one with a later created_at.
C18_ListNewestFirst ==
    \A response \in get_file_records_response :
        /\ response.code = 200
        /\ {response.records[i].id : i \in DOMAIN response.records} = DOMAIN files
        /\ Len(response.records) = Cardinality(DOMAIN files)
        /\ \A i, k \in DOMAIN response.records :
               i < k => response.records[i].created_at >= response.records[k].created_at

\* C19: for every max_age a caller can ask for, POST /api/cleanup unlinks the
\* output files older than max_age, keeps the files of age max_age or less,
\* and answers with the number of files it unlinked.
C19_SweepMaxAge ==
    /\ [](\A max_age \in {0, expiration_time, 2 * expiration_time} :
             /\ expired = {f \in DOMAIN outputs : now - outputs[f].mtime > max_age}
             /\ cleanup_response.deleted_files = Cardinality(expired))
    /\ [][cleanup_old_files =>
              /\ DOMAIN outputs' = DOMAIN outputs \ expired
              /\ cleanup_response.deleted_files =
                     Cardinality(DOMAIN outputs \ DOMAIN outputs')]_vars

\* C20: when the engine call of a job returns a code other than SUCCESS, the
\* exception raised is of one type whatever the last-error pointer is, and of
\* a type that is raised for no other code; its message is the engine's
\* message when the pointer gives one, and else a message fixed for the code;
\* the code SUCCESS raises nothing.
C20_ErrorMapping ==
    [][\A j \in JobIds, error_code \in ErrorCode, ptr \in ErrPtrs :
           engine_return(j, error_code, ptr, TRUE, MaxSize) =>
               IF error_code = SUCCESS
               THEN exc'[j] = exc[j] /\ pc'[j] = "verify"
               ELSE /\ pc'[j] = "except_status"
                    /\ \A other \in ErrPtrs :
                           _check_error(error_code, other).type = exc'[j].type
                    /\ \A code \in ErrorCode \ {SUCCESS, error_code}, other \in ErrPtrs :
                           _check_error(code, other).type # exc'[j].type
                    /\ ptr = "detail" => exc'[j].msg = "detail"
                    /\ ptr = NULL =>
                           /\ exc'[j].msg \notin {"", "detail"}
                           /\ exc'[j].msg = _check_error(error_code, "").msg]_vars

\* C21: GET /api/status/<job_id> answers 404 for an id no request was given,
\* and for an id a request was given it answers 200 from then on; a job stays
\* in the job table, and a request never puts a second job under an id that
\* is in the table.
C21_IssuedNeverNotFound ==
    /\ [](\A job_id \in JobIds :
             status_response(job_id).code = (IF pc[job_id] = "idle" THEN 404 ELSE 200))
    /\ [][\A job_id \in JobIds :
              status_response(job_id).code = 200 =>
                  /\ status_response(job_id)'.code = 200
                  /\ status_response(job_id)'.operation = status_response(job_id).operation
                  /\ jobs'[job_id].status = PENDING => jobs[job_id].status = PENDING]_vars
    /\ [][\A j \in JobIds :
              (\/ \E size \in Sizes, filename \in FileNames : encode_file(j, size, filename)
               \/ \E size \in Sizes, video \in 0..MaxJobs : decode_video(j, size, video)) =>
                  status_response(j).code = 404 /\ DOMAIN jobs' = DOMAIN jobs \cup {j}]_vars

\* the first job has finished and is still answered, the second id has not
\* been given to any request
C21_Witness ==
    /\ 1 \in DOMAIN jobs /\ pc[1] = "done" /\ jobs[1].status = COMPLETED
    /\ status_response(1).code = 200
    /\ status_response(2).code = 404

\* C22: with two jobs under way, a step of one job's worker leaves the other
\* job's record, input file, output file, handle and exception as they are;
\* a job's record changes only in a step of its own worker; and a job whose
\* engine call returned SUCCESS with its output file written gets Completed.
C22_WorkersIndependent ==
    /\ [][\A j \in JobIds : fair_worker(j) =>
              \A k \in JobIds \ {j} :
                  /\ k \in DOMAIN jobs => jobs'[k] = jobs[k]
                  /\ (k \in DOMAIN uploads') = (k \in DOMAIN uploads)
                  /\ k \in DOMAIN uploads => uploads'[k] = uploads[k]
                  /\ (k \in DOMAIN outputs') = (k \in DOMAIN outputs)
                  /\ k \in DOMAIN outputs => outputs'[k] = outputs[k]
                  /\ (k \in DOMAIN files') = (k \in DOMAIN files)
                  /\ handle'[k] = handle[k] /\ exc'[k] = exc[k] /\ pc'[k] = pc[k]]_vars
    /\ [][\A k \in DOMAIN jobs : jobs'[k] # jobs[k] => fair_worker(k)]_vars
    /\ \A j \in JobIds :
           (pc[j] = "verify" /\ j \in DOMAIN outputs) ~>
               (j \in DOMAIN jobs /\ jobs[j].status = COMPLETED)

\* the second job is Completed and finished while the first, submitted before
\* it, is still Running inside its engine call with progress of its own
C22_Witness ==
    /\ DOMAIN jobs = {1, 2}
    /\ jobs[2].status = COMPLETED /\ pc[2] = "done" /\ jobs[2].progress = 100
    /\ 2 \in DOMAIN outputs
    /\ jobs[1].status = RUNNING /\ pc[1] = "encode"
    /\ jobs[1].progress > 0 /\ reported[1] > 0

\* C23: in every state of the table, a row has a checksum exactly when its
\* type is "original", the rows of type "original" are those decode jobs
\* inserted and the rows of type "encoded" those encode jobs inserted; a
\* checksum is the digest of the output file as the job found it.
C23_ChecksumOnlyForDecoded ==
    /\ [](\A r \in DOMAIN files :
             /\ (files[r].checksum # <<>>) = (files[r].type = "original")
             /\ (files[r].type = "original") = (jobs[r].operation = "decode")
             /\ (files[r].type = "encoded") = (jobs[r].operation = "encode"))
    /\ [][\A r \in DOMAIN files' \ DOMAIN files :
              files'[r].type = "original" =>
                  files'[r].checksum = calculate_checksum(outputs[r])]_vars

\* the table holds the row of an encode job, without a checksum, and the row
\* of a decode job, with one
C23_Witness ==
    \E r, q \in DOMAIN files :
        /\ files[r].type = "encoded" /\ files[r].checksum = <<>>
        /\ files[q].type = "original" /\ files[q].checksum = <<"sha256", MaxSize>>

\* C24: a job that reaches its registry step inserts one row, whose video_url
\* is the job's result_url; rows are inserted at that step only, so no job
\* inserts a second one; and no job that is Failed has inserted a row.
C24_OneRecordPerJob ==
    /\ [][\A j \in JobIds : task_registry(j) =>
              /\ j \notin DOMAIN files /\ j \in DOMAIN files'
              /\ files'[j].video_url = jobs[j].result_url]_vars
    /\ [][\A r \in DOMAIN files' \ DOMAIN files :
              task_registry(r) /\ jobs[r].status = COMPLETED]_vars
    /\ [](\A j \in DOMAIN jobs : jobs[j].status = FAILED => j \notin DOMAIN files)

\* C25: an Encoder or Decoder made with a width, height, fps or chunk size of
\* zero or less gets ConfigError from _create_handle and no handle, and the
\* engine is never handed the unsigned word a negative value wraps to.
C25_NonPositiveRejected ==
    cycle.pc \in {"created", "raised"} =>
        \A k \in DOMAIN cycle.passed :
            cycle[k] <= 0 =>
                /\ cycle.pc = "raised"
                /\ cycle.exc.type = "ConfigError"
                /\ cycle.self._handle = NoHandle
                /\ cycle[k] < 0 => cycle.passed[k] \notin {c_uint32(cycle[k]), c_size_t(cycle[k])}

\* C26: a call of a job's progress_callback while job.total_size is 0 or is
\* not set makes job.progress 50 and raises nothing: the worker stays inside
\* its engine call; and the worker of a job for a 0-byte upload, once
\* finished, has left the job Completed or Failed.
C26_ZeroSizeProgress ==
    /\ [](\A total_bytes \in 0..MaxBytes :
             /\ progress_value(total_bytes, NoAttr) = 50
             /\ progress_value(total_bytes, 0) = 50)
    /\ [][\A j \in JobIds, total_bytes \in 0..MaxBytes :
              (progress_callback(j, total_bytes) /\ jobs[j].total_size \in {NoAttr, 0}) =>
                  /\ jobs'[j].progress = 50
                  /\ exc'[j] = exc[j] /\ pc'[j] = "encode"]_vars
    /\ [](\A j \in DOMAIN jobs :
             (jobs[j].total_size = 0 /\ pc[j] = "done") =>
                 jobs[j].status \in {COMPLETED, FAILED})

\* an encode job for a 0-byte upload inside its engine call, after a progress
\* report of more than no byte
C26_Witness ==
    \E j \in DOMAIN jobs :
        /\ jobs[j].operation = "encode" /\ jobs[j].total_size = 0
        /\ pc[j] = "encode" /\ reported[j] > 0 /\ jobs[j].progress = 50

\* C27: a job's total_size is set only once its status was set Running, its
\* handle is created only once total_size is set, and the engine call is
\* under way only with the handle; the job becomes Completed only from the
\* step after the check of the output, which follows a SUCCESS return, with
\* no exception raised before; a return of any other code goes to the except
\* block; and progress_callback runs only while the job is Running inside the
\* engine call.
C27_StepOrder ==
    /\ [](\A j \in DOMAIN jobs :
             /\ jobs[j].total_size # NoAttr => jobs[j].status # PENDING
             /\ handle[j] # None => jobs[j].total_size # NoAttr
             /\ pc[j] = "encode" => (handle[j] # None /\ jobs[j].status = RUNNING)
             /\ pc[j] \in {"running", "stat", "create"} => handle[j] = None
             /\ pc[j] \in {"running", "stat"} => jobs[j].total_size = NoAttr)
    /\ [][\A j \in DOMAIN jobs :
              (jobs'[j].status = COMPLETED /\ jobs[j].status # COMPLETED) =>
                  (pc[j] = "completed" /\ exc[j] = NoExc /\ jobs[j].status = RUNNING)]_vars
    /\ [][\A j \in JobIds :
              (pc'[j] = "completed" /\ pc[j] # "completed") => pc[j] = "verify"]_vars
    /\ [][\A j \in JobIds :
              (pc'[j] = "verify" /\ pc[j] # "verify") =>
                  \E ptr \in ErrPtrs : engine_return(j, SUCCESS, ptr, TRUE, MaxSize)]_vars
    /\ [][\A j \in JobIds, error_code \in ErrorCode \ {SUCCESS}, ptr \in ErrPtrs :
              engine_return(j, error_code, ptr, TRUE, MaxSize) =>
                  (pc'[j] = "except_status" /\ exc'[j] # NoExc)]_vars
    /\ [][\A j \in DOMAIN jobs :
              (jobs'[j].progress # jobs[j].progress /\ jobs[j].status \in {COMPLETED, FAILED}) =>
                  (task_progress100(j) /\ jobs[j].status = COMPLETED)]_vars
    /\ [][\A j \in JobIds :
              progress_callback(j, MaxBytes) => (jobs[j].status = RUNNING /\ pc[j] = "encode")]_vars

\* a job just set Completed, its progress still the one its last progress
\* report left
C27_Witness ==
    \E j \in DOMAIN jobs :
        /\ jobs[j].status = COMPLETED /\ pc[j] = "progress100"
        /\ jobs[j].total_size = MaxSize /\ handle[j] # None
        /\ jobs[j].progress = progress_value(MaxBytes, MaxSize)
        /\ exc[j] = NoExc /\ j \in DOMAIN outputs

\* C28: a call of _check_error that is over has called f2v2f_get_last_error
\* once for a code other than SUCCESS, and f2v2f_free_string once, on the
\* pointer it got, when that pointer was not null, a string that does not
\* decode included, and not at all when it was null; for SUCCESS it has
\* called neither. At no moment has it freed more than once.
C28_LastErrorReleasedOnce ==
    /\ cycle.free_string <= 1 /\ cycle.get_last_error <= 1
    /\ cycle.pc \in {"returned", "raised"} =>
           IF cycle.error_code = SUCCESS
           THEN cycle.pc = "returned" /\ cycle.get_last_error = 0 /\ cycle.free_string = 0
           ELSE /\ cycle.pc = "raised" /\ cycle.exc # NoExc
                /\ cycle.get_last_error = 1
                /\ cycle.free_string = (IF cycle.ptr = NULL THEN 0 ELSE 1)
                /\ cycle.freed = cycle.ptr

\* the call for a failure whose message is not valid UTF-8 is over: the string
\* was freed, and the exception carries the default message
C28_Witness ==
    /\ cycle.pc = "raised" /\ cycle.error_code = ENCODING_ERROR /\ cycle.ptr = BadUtf8
    /\ cycle.free_string = 1 /\ cycle.freed = BadUtf8
    /\ cycle.exc = [type |-> "EncodingError", msg |-> "Encoding failed"]

\* C29: whenever the handler of POST /api/encode or POST /api/decode builds
\* its answer, the status in it is "pending".
C29_SubmitAnswersPending ==
    \A j \in DOMAIN jobs : submit_response(j).status = PENDING

\* C30: a decode job that has run on the video of a Completed encode job
\* created its decoder with the width, height and chunk size the encoder was
\* created with, and is Completed.
C30_DecodeUsesEncodeParams ==
    cycle.pc = "decoded" =>
        /\ cycle.decoder.width = cycle.encoder.width
        /\ cycle.decoder.height = cycle.encoder.height
        /\ cycle.decoder.chunk_size = cycle.encoder.chunk_size
        /\ cycle.decode_status = COMPLETED

====
